---- MODULE Spec2Model ----
(***************************************************************************)
(* riemann-zeta: the header store (zeta/headers.py) on the shared sqlite   *)
(* connection (zeta/db/connection.py), and the electrum client functions   *)
(* (zeta/electrum/electrum.py).                                            *)
(*                                                                         *)
(* Numbers.  Python integers are unbounded; a 256-bit hash or target is    *)
(* written here as a record [m, k] denoting the integer m * 256^k, and     *)
(* compared / divided by aligning the exponents.  A header hash is written *)
(* as the natural n and denotes the 64-digit hex string of n * 256^26.     *)
(***************************************************************************)
EXTENDS Integers, Sequences, FiniteSets, TLC

VARIABLES
    tables,     \* TRUE once ensure_tables() has created the headers table
    db,         \* rows of the headers table as seen through CONN
    committed,  \* rows made durable by the last CONN.commit()
    last,       \* the last call: its name, argument, outcome and the rows before it
    steps,      \* steps taken so far (see MaxSteps)
    probe,      \* a direct call of check_work: the header and the value returned
    CLIENT,     \* electrum._CLIENT: 0 for None, else the MetaClient it holds
    made,       \* MetaClient instances constructed so far, numbered 1..made
    task,       \* the coroutines calling into electrum.py: where each stands
    subs,       \* the subscriptions made with client.subscribe, in order
    outq        \* the caller-owned queue handed to the subscribe_to_* calls

store_vars == <<tables, db, committed, last, steps>>

electrum_vars == <<CLIENT, made, task, subs, outq>>

\* what the coroutines of electrum.py leave alone
outside == <<tables, db, committed, last, steps, probe>>

\* what the calls on the header store leave alone
others == <<probe, CLIENT, made, task, subs, outq>>

vars ==
    <<tables, db, committed, last, steps, probe, CLIENT, made, task, subs, outq>>

-----------------------------------------------------------------------------
(* Bounds *)

\* longest list handed to batch_store_header
MaxBatch == 3

\* coroutines calling into electrum.py at the same time
MaxTasks == 2

\* subscriptions made in a run
MaxSubs == 2

\* pushes the server sends on one subscription
MaxPushes == 1

\* length of a run: every call counts one step, a batch one step per header,
\* an execute or commit made to raise one step more
MaxSteps == 4

-----------------------------------------------------------------------------
(* Big naturals m * 256^k *)

RECURSIVE Pow256(_)
Pow256(e) == IF e = 0 THEN 1 ELSE 256 * Pow256(e - 1)

\* a <= b
BigLeq(a, b) ==
    IF a.k >= b.k
    THEN a.m * Pow256(a.k - b.k) <= b.m
    ELSE a.m <= b.m * Pow256(b.k - a.k)

\* a // b  (Python floor division of two non-negative integers, b > 0)
BigFloorDiv(a, b) ==
    IF a.k >= b.k
    THEN (a.m * Pow256(a.k - b.k)) \div b.m
    ELSE a.m \div (b.m * Pow256(b.k - a.k))

\* rutils.le2i on a byte sequence
RECURSIVE le2i(_)
le2i(bytes) ==
    IF bytes = <<>> THEN 0 ELSE Head(bytes) + 256 * le2i(Tail(bytes))

\* rutils.be2i on a byte sequence
RECURSIVE be2i(_)
be2i(bytes) ==
    IF bytes = <<>> THEN 0
    ELSE bytes[Len(bytes)] + 256 * be2i(SubSeq(bytes, 1, Len(bytes) - 1))

\* int(header['hash'], 16): every hash of the universe ends in 26 zero bytes
HexToInt(hash) == [m |-> hash, k |-> 26]

-----------------------------------------------------------------------------
(* Header codec *)

\* nbits[:-1] and nbits[-1:]
AllButLast(bytes) == SubSeq(bytes, 1, Len(bytes) - 1)
LastByte(bytes) == SubSeq(bytes, Len(bytes), Len(bytes))

make_target(nbits) ==
    LET exponent == be2i(LastByte(nbits)) - 3
        mantissa == le2i(AllButLast(nbits))
    IN  IF exponent >= 0
        THEN [m |-> mantissa, k |-> exponent]
        ELSE [m |-> mantissa \div Pow256(0 - exponent), k |-> 0]

\* the header's work target compared against the reference target: accepts a
\* hash that is too large for the header's own nbits
check_work_reference(header) ==
    BigLeq(HexToInt(header.hash), make_target(<<255, 255, 0, 29>>))

\* a hash equal to the target turned away
check_work_strict(header) ==
    ~BigLeq(make_target(header.nbits), HexToInt(header.hash))

check_work(header) ==
    BigLeq(HexToInt(header.hash), make_target(header.nbits))

\* b'\xff\xff\x00\x1d'
MaxTargetBits == <<255, 255, 0, 29>>

parse_difficulty(nbits) ==
    BigFloorDiv(make_target(MaxTargetBits), make_target(nbits))

-----------------------------------------------------------------------------
(* The raw headers the network can deliver.  A raw header is a hex string; *)
(* the record keeps its length in characters (len), the number of bytes    *)
(* bytes.fromhex decodes it to (bytes: fromhex skips white space, so a     *)
(* string of 160 characters can decode to fewer than 80 bytes), the        *)
(* prev_block and nbits slices, and the nonce, which tells the strings of  *)
(* the universe apart                                                      *)
(* (version, merkle_root and timestamp are further slices of the string    *)
(* and are carried by the hex column).                                     *)

Bits1 == <<255, 255, 0, 29>>    \* ffff001d, difficulty 1
Bits2 == <<255, 127, 0, 29>>    \* ff7f001d, difficulty 2
Bits256 == <<255, 255, 0, 28>>  \* ffff001c, difficulty 256

Raw(nonce, prev, bits) ==
    [len |-> 160, bytes |-> 80, nonce |-> nonce, prev_block |-> prev,
     nbits |-> bits]

RawG == Raw(1, 0, Bits1)
RawA == Raw(2, 10, Bits2)
RawB == Raw(3, 20, Bits256)
RawC == Raw(4, 10, Bits2)
RawX == Raw(5, 10, Bits2)
RawD == Raw(7, 30, Bits2)

WellFormed == {RawG, RawA, RawB, RawC, RawX, RawD}

\* a string of 158 hex digits
RawShort == [len |-> 158, bytes |-> 79, nonce |-> 0, prev_block |-> 0,
             nbits |-> <<>>]

\* a string of 160 characters, two of them blanks in the nonce slice: 79
\* bytes, of which as_bytes[4:36] and as_bytes[72:76] are whole
RawSpaced == [len |-> 160, bytes |-> 79, nonce |-> 6, prev_block |-> 0,
              nbits |-> Bits1]

RawStrings == WellFormed \cup {RawShort, RawSpaced}

\* rutils.hash256(bytes.fromhex(header))[::-1].hex()
hash256(raw) ==
    CASE raw.nonce = 1 -> 10
      [] raw.nonce = 2 -> 20
      [] raw.nonce = 3 -> 30
      [] raw.nonce = 4 -> 40
      [] raw.nonce = 5 -> 40000
      [] raw.nonce = 6 -> 50
      [] raw.nonce = 7 -> 60

Hashes == {hash256(r) : r \in WellFormed}

\* len(header) != 160 raises ValueError
parse_header_raises(raw) == raw.len # 160

parse_header(raw) ==
    [hash |-> hash256(raw),
     prev_block |-> raw.prev_block,
     nbits |-> raw.nbits,
     difficulty |-> parse_difficulty(raw.nbits),
     hex |-> raw]

isinstance_str(header) == "len" \in DOMAIN header

\* headers handed over already parsed: without a 'height' key, as parse_header
\* returns them, or with the caller's height and accumulated_work
WithScore(header, height, work) ==
    [hash |-> header.hash,
     prev_block |-> header.prev_block,
     nbits |-> header.nbits,
     difficulty |-> header.difficulty,
     hex |-> header.hex,
     height |-> height,
     accumulated_work |-> work]

ParsedDicts == {parse_header(r) : r \in {RawA, RawX}}

SuppliedScores == {<<0, 5>>}

ScoredDicts ==
    {WithScore(parse_header(r), s[1], s[2]) : r \in {RawG, RawB, RawX}, s \in SuppliedScores}

-----------------------------------------------------------------------------
(* The headers table behind CONN *)

None == [none |-> TRUE]

\* the eleven named parameters of the INSERT, bound from the dict
Row(header) == WithScore(header, header.height, header.accumulated_work)

\* INSERT without conflict handling on a table lacking the primary key
InsertPlain(rows, header) == rows \cup {Row(header)}

\* a REPLACE that also removes the rows conflicting on prev_block
InsertReplacingSiblings(rows, header) ==
    {r \in rows : r.hash # header.hash /\ r.prev_block # header.prev_block}
        \cup {Row(header)}

\* INSERT OR REPLACE INTO headers, hash TEXT PRIMARY KEY
InsertOrReplace(rows, header) ==
    {r \in rows : r.hash # header.hash} \cup {Row(header)}

\* SELECT * FROM headers WHERE hash = :hash; res[0] or None
find_by_hash(rows, hash) ==
    LET res == {r \in rows : r.hash = hash}
    IN  IF res # {} THEN CHOOSE r \in res : TRUE ELSE None

\* SELECT * FROM headers WHERE height = :height
find_by_height(rows, height) == {r \in rows : r.height = height}

\* SQL max() over a column, folding the values one by one: <<v>>, or <<>> for
\* the NULL of the empty table
RECURSIVE SqlMax(_)
SqlMax(values) ==
    IF values = {} THEN <<>>
    ELSE LET v == CHOOSE x \in values : TRUE
             rest == SqlMax(values \ {v})
         IN  IF rest = <<>> THEN <<v>>
             ELSE IF v > rest[1] THEN <<v>> ELSE rest

\* column = (subquery): never true when the subquery yields NULL
SqlEq(value, sub) == sub # <<>> /\ value = sub[1]

\* WHERE height = (SELECT max(height) FROM headers)
find_highest(rows) ==
    LET top == SqlMax({r.height : r \in rows})
    IN  {r \in rows : SqlEq(r.height, top)}

\* the tip chosen by height instead of by work
find_heaviest_by_height(rows) == find_highest(rows)

\* WHERE accumulated_work = (SELECT max(accumulated_work) FROM headers)
find_heaviest(rows) ==
    LET top == SqlMax({r.accumulated_work : r \in rows})
    IN  {r \in rows : SqlEq(r.accumulated_work, top)}

-----------------------------------------------------------------------------
(* store_header *)

\* a lookup that never finds the parent
parent_height_and_work_lost(header, rows) == <<0, 0>>

parent_height_and_work(header, rows) ==
    LET parent == find_by_hash(rows, header.prev_block)
    IN  IF parent # None
        THEN <<parent.height, parent.accumulated_work>>
        ELSE <<0, 0>>

\* the scoring done for every header, a 'height' key or not
store_header_rescored(header, rows) ==
    LET p == parent_height_and_work(header, rows)
    IN  WithScore(header, p[1] + 1, p[2] + header.difficulty)

\* lines 176-179: the header as it is handed to the INSERT
store_header_scored(header, rows) ==
    IF "height" \notin DOMAIN header
    THEN LET p == parent_height_and_work(header, rows)
         IN  WithScore(header, p[1] + 1, p[2] + header.difficulty)
    ELSE header

\* What a call does: the value it returns ("True", "False") or "raise", the
\* rows visible through CONN and the committed rows after it, and the rows
\* its INSERTs wrote, in order.  fail = 0: storage works; fail = k: the k-th
\* c.execute of the call raises; fail = (number of INSERTs) + 1: commit raises.
\* fault: a c.execute or the commit of the call's write raised; cursor: the
\* cursor c of the call, "none" while the call has not asked for one.
Outcome(result, rows, durable, written) ==
    [result |-> result, db |-> rows, committed |-> durable, written |-> written,
     fault |-> FALSE, cursor |-> "none"]

\* c = connection.get_cursor() ... finally: c.close()
Closed(out) == [out EXCEPT !.cursor = "closed"]

\* c = connection.get_cursor() of batch_store_header (line 97), left behind
\* by an exception raised before the try block
LeftOpen(out) == [out EXCEPT !.cursor = "open"]

\* the except clause with the exception escaping instead of being reported
FailedRaises(rows, durable, written) ==
    Closed([Outcome("raise", rows, durable, written) EXCEPT !.fault = TRUE])

\* except Exception: return False; finally: c.close()
Failed(rows, durable, written) ==
    Closed([Outcome("False", rows, durable, written) EXCEPT !.fault = TRUE])

store_header(arg, fail, hasTable, rows, durable) ==
    IF isinstance_str(arg) /\ parse_header_raises(arg)
    THEN Outcome("raise", rows, durable, <<>>)
    ELSE
    LET header == IF isinstance_str(arg) THEN parse_header(arg) ELSE arg
    IN  IF ~check_work(header)
        THEN Outcome("False", rows, durable, <<>>)
        ELSE IF "height" \notin DOMAIN header /\ ~hasTable
        THEN Outcome("raise", rows, durable, <<>>)   \* find_by_hash: no such table
        ELSE
        LET scored == store_header_scored(header, rows)
            after == InsertOrReplace(rows, scored)
        IN  IF ~hasTable \/ fail = 1
            THEN Failed(rows, durable, <<>>)
            ELSE IF fail = 2
            THEN Failed(after, durable, <<Row(scored)>>)
            ELSE Closed(Outcome("True", after, after, <<Row(scored)>>))

-----------------------------------------------------------------------------
(* batch_store_header *)

\* lines 99-103: parse the strings, tag every header height 0, work 0
batch_tagged(headers) ==
    [i \in 1..Len(headers) |->
        WithScore(IF isinstance_str(headers[i]) THEN parse_header(headers[i])
                  ELSE headers[i],
                  0, 0)]

\* line 105
batch_survivors(tagged) == SelectSeq(tagged, check_work)

\* lines 107-114: the first header with a parent in the table is scored from
\* it (with the difficulty of headers[0]) and the list is cut to start there
batch_seeded(headers, rows) ==
    LET found == {i \in 1..Len(headers) :
                    find_by_hash(rows, headers[i].prev_block) # None}
    IN  IF found = {} THEN headers
        ELSE LET i == CHOOSE j \in found : \A l \in found : j <= l
                 parent == find_by_hash(rows, headers[i].prev_block)
                 seeded == WithScore(headers[i],
                                     parent.height + 1,
                                     parent.accumulated_work + headers[1].difficulty)
             IN  SubSeq([headers EXCEPT ![i] = seeded], i, Len(headers))

\* lines 116-124: one pass over the list in order; a header at height 0 whose
\* prev_block is the hash of a header of the list (the first such) that has
\* height > 0 by now inherits from it
\* no pass over the list at all
batch_backfill_skipped(headers, j) == headers

\* the pass repeated until the list no longer changes
RECURSIVE BackfillPass(_, _)
BackfillPass(headers, j) ==
    IF j > Len(headers) THEN headers
    ELSE
    LET header == headers[j]
        parent == SelectSeq(headers, LAMBDA k : k.hash = header.prev_block)
    IN  IF header.height = 0 /\ Len(parent) # 0 /\ parent[1].height > 0
        THEN BackfillPass(
                [headers EXCEPT ![j] =
                    WithScore(header,
                              parent[1].height + 1,
                              parent[1].accumulated_work + header.difficulty)],
                j + 1)
        ELSE BackfillPass(headers, j + 1)

RECURSIVE BackfillUntilStable(_)
BackfillUntilStable(headers) ==
    IF BackfillPass(headers, 1) = headers THEN headers
    ELSE BackfillUntilStable(BackfillPass(headers, 1))

batch_backfill_fixpoint(headers, j) == BackfillUntilStable(headers)

RECURSIVE batch_backfill(_, _)
batch_backfill(headers, j) ==
    IF j > Len(headers) THEN headers
    ELSE
    LET header == headers[j]
        parent == SelectSeq(headers, LAMBDA k : k.hash = header.prev_block)
    IN  IF header.height = 0 /\ Len(parent) # 0 /\ parent[1].height > 0
        THEN batch_backfill(
                [headers EXCEPT ![j] =
                    WithScore(header,
                              parent[1].height + 1,
                              parent[1].accumulated_work + header.difficulty)],
                j + 1)
        ELSE batch_backfill(headers, j + 1)

\* lines 127-143: the INSERTs of the first n headers of the list, in order
RECURSIVE batch_insert(_, _, _)
batch_insert(rows, headers, n) ==
    IF n = 0 THEN rows
    ELSE InsertOrReplace(batch_insert(rows, headers, n - 1), headers[n])

\* lines 126-149 on the list left by the backfill
batch_write(headers, fail, rows, durable) ==
    LET n == Len(headers)
        done == IF fail \in 1..n THEN fail - 1 ELSE n
        written == [i \in 1..done |-> Row(headers[i])]
    IN  IF fail \in 1..(n + 1)
        THEN Failed(batch_insert(rows, headers, done), durable, written)
        ELSE Closed(Outcome("True", batch_insert(rows, headers, done),
                            batch_insert(rows, headers, done), written))

\* batch mode reporting a header without enough work the way single mode does
batch_store_header_strict(arg, fail, hasTable, rows, durable) ==
    IF \E i \in 1..Len(arg) : isinstance_str(arg[i]) /\ parse_header_raises(arg[i])
    THEN LeftOpen(Outcome("raise", rows, durable, <<>>))
    ELSE IF Len(batch_survivors(batch_tagged(arg))) # Len(arg)
    THEN LeftOpen(Outcome("False", rows, durable, <<>>))
    ELSE batch_write(batch_backfill(batch_seeded(batch_tagged(arg), rows), 1),
                     fail, rows, durable)

batch_store_header(arg, fail, hasTable, rows, durable) ==
    IF \E i \in 1..Len(arg) : isinstance_str(arg[i]) /\ parse_header_raises(arg[i])
    THEN LeftOpen(Outcome("raise", rows, durable, <<>>))
    ELSE
    LET survivors == batch_survivors(batch_tagged(arg))
    IN  IF Len(survivors) # 0 /\ ~hasTable
        THEN LeftOpen(Outcome("raise", rows, durable, <<>>))   \* find_by_hash: no such table
        ELSE batch_write(batch_backfill(batch_seeded(survivors, rows), 1),
                         fail, rows, durable)

-----------------------------------------------------------------------------
(* The calls *)

Call(op, arg, out, pre, found) ==
    [op |-> op, arg |-> arg, result |-> out.result, pre |-> pre,
     written |-> out.written, found |-> found,
     fault |-> out.fault, cursor |-> out.cursor]

\* no call yet
NoCall ==
    [op |-> "init", arg |-> <<>>, result |-> "None", pre |-> {},
     written |-> <<>>, found |-> {}, fault |-> FALSE, cursor |-> "none"]

\* no direct call of check_work
NoProbe == [header |-> None, result |-> "None"]

\* electrum.py imported, none of its functions called
Tasks == 1..MaxTasks

NotCalled == [pc |-> "start", fn |-> "none", client |-> 0, todo |-> <<>>, sub |-> 0]

ElectrumIdle ==
    /\ CLIENT = 0
    /\ made = 0
    /\ task = [t \in Tasks |-> NotCalled]
    /\ subs = <<>>
    /\ outq = <<>>

\* CONN = sqlite3.connect(DB_PATH): a new database file, or the file of an
\* earlier run in which ensure_tables() created the tables; no header yet
Init ==
    /\ tables \in BOOLEAN
    /\ db = {}
    /\ committed = {}
    /\ last = NoCall
    /\ steps = 0
    /\ probe = NoProbe
    /\ ElectrumIdle

\* connection.ensure_tables(): CREATE TABLE IF NOT EXISTS, then commit
EnsureTables ==
    /\ tables' = TRUE
    /\ db' = db
    /\ committed' = db
    /\ last' = Call("ensure_tables", <<>>,
                     Closed(Outcome("True", db, db, <<>>)), db, {})
    /\ steps < MaxSteps
    /\ steps' = steps + 1
    /\ UNCHANGED others

\* the places of a call with n INSERTs at which the storage can be made to
\* fail: none (0), the k-th execute, the commit (n + 1)
FailPoints(n, cost) == IF steps + cost < MaxSteps THEN 0..(n + 1) ELSE {0}

\* a failure made at place fail was met by the call
Injected(fail, out) == IF fail # 0 /\ out.fault THEN 1 ELSE 0

StoreHeaderArgs == RawStrings \cup ParsedDicts \cup ScoredDicts

StoreHeader ==
    /\ steps < MaxSteps
    /\ \E arg \in StoreHeaderArgs, fail \in FailPoints(1, 1) :
        \E out \in {store_header(arg, fail, tables, db, committed)} :
            /\ steps' = steps + 1 + Injected(fail, out)
            /\ db' = out.db
            /\ committed' = out.committed
            /\ last' = Call("store_header", arg, out, db, {})
    /\ UNCHANGED tables
    /\ UNCHANGED others

\* lists of well-formed strings, and lists holding a malformed one
MalformedBatches ==
    {<<RawShort>>, <<RawA, RawShort>>, <<RawShort, RawA>>, <<RawSpaced>>}

\* the lists of at most n different elements of S
RECURSIVE SeqsUpTo(_, _)
SeqsUpTo(S, n) ==
    IF n = 0 THEN {<<>>}
    ELSE LET shorter == SeqsUpTo(S, n - 1)
         IN  shorter \cup
             {Append(p[1], p[2]) :
                p \in {c \in shorter \X S : \A i \in 1..Len(c[1]) : c[1][i] # c[2]}}

BatchArgs == SeqsUpTo(WellFormed, MaxBatch) \cup MalformedBatches

BatchCost(arg) == IF Len(arg) = 0 THEN 1 ELSE Len(arg)

BatchStoreHeader ==
    /\ steps < MaxSteps
    /\ \E arg \in {a \in BatchArgs : steps + BatchCost(a) <= MaxSteps} :
       \E fail \in FailPoints(Len(arg), BatchCost(arg)) :
        \E out \in {batch_store_header(arg, fail, tables, db, committed)} :
            /\ steps' = steps + BatchCost(arg) + Injected(fail, out)
            /\ db' = out.db
            /\ committed' = out.committed
            /\ last' = Call("batch_store_header", arg, out, db, {})
    /\ UNCHANGED tables
    /\ UNCHANGED others

\* the read-only queries; on a missing table the SELECT raises
Query(op, arg, found) ==
    /\ last' = Call(op, arg,
                    Closed(Outcome(IF tables THEN "True" ELSE "raise",
                                   db, committed, <<>>)),
                    db,
                    IF tables THEN found ELSE {})
    /\ steps < MaxSteps
    /\ steps' = steps + 1
    /\ UNCHANGED <<tables, db, committed>>
    /\ UNCHANGED others

FindByHash ==
    \E hash \in Hashes :
        Query("find_by_hash", hash, {r \in {find_by_hash(db, hash)} : r # None})

FindByHeight ==
    \E height \in {r.height : r \in db} \cup {0} :
        Query("find_by_height", height, find_by_height(db, height))

FindHighest == Query("find_highest", <<>>, find_highest(db))

FindHeaviest == Query("find_heaviest", <<>>, find_heaviest(db))

Next ==
    \/ EnsureTables
    \/ StoreHeader
    \/ BatchStoreHeader
    \/ FindByHash
    \/ FindByHeight
    \/ FindHighest
    \/ FindHeaviest

Spec == Init /\ [][Next]_vars

-----------------------------------------------------------------------------
(* check_work called on its own *)

\* the header store before any call
StoreIdle ==
    /\ tables = FALSE
    /\ db = {}
    /\ committed = {}
    /\ last = NoCall
    /\ steps = 0

\* nbits: three mantissa bytes, least significant first, then the exponent
ProbeBits ==
    {<<b[1], b[2], b[3], e>> :
        b \in {<<255, 255, 0>>, <<255, 127, 0>>, <<0, 0, 1>>, <<1, 0, 0>>,
               <<255, 255, 127>>},
        e \in {28, 29, 30}}

\* hashes n * 256^26
ProbeHashes == {0, 1, 2, 255, 256, 257, 32767, 65535, 65536, 8388607}

\* headers that differ in the fields check_work does not read as well
ProbeHeaders ==
    [hash : ProbeHashes, nbits : ProbeBits, prev_block : {0, 10},
     difficulty : {1, 2}]

InitCheckWork ==
    /\ StoreIdle
    /\ probe = NoProbe
    /\ ElectrumIdle

CheckWork ==
    /\ \E header \in ProbeHeaders :
        probe' = [header |-> header, result |-> check_work(header)]
    /\ UNCHANGED store_vars
    /\ UNCHANGED electrum_vars

SpecCheckWork == InitCheckWork /\ [][CheckWork]_vars

-----------------------------------------------------------------------------
(* electrum.py: the shared client and the subscriptions.  Coroutines run   *)
(* on one event loop: a step below is the code between two awaits.         *)

\* what a coroutine subscribes to, in order: the header topic, or addresses
\* ("bad": eutils.address_to_electrum_scripthash raises ValueError)
Calls ==
    {[fn |-> "subscribe_to_headers", todo |-> <<"headers">>],
     [fn |-> "get_headers", todo |-> <<>>],
     [fn |-> "subscribe_to_address", todo |-> <<"good">>],
     [fn |-> "subscribe_to_address", todo |-> <<"bad">>],
     [fn |-> "subscribe_to_addresses", todo |-> <<"bad", "good">>],
     [fn |-> "subscribe_to_addresses", todo |-> <<"good", "good">>]}

\* client.subscribe(topic, ...): a future for the initial value and a queue
\* q of the pushes that follow
NewSub == [q |-> 0, pushed |-> 0, forwarding |-> FALSE]

RECURSIVE Convertible(_)

\* lines 104-105 and 110-111, 127-128 and 133-134: the addresses from the
\* first one that eutils.address_to_electrum_scripthash converts; the ones
\* before it raise ValueError and are passed over
Convertible(todo) ==
    IF todo = <<>> \/ Head(todo) # "bad" THEN todo ELSE Convertible(Tail(todo))

\* a coroutine that holds the client runs on to its next await: get_headers
\* to await client.RPC(...) (line 60); a subscription to fut, q =
\* client.subscribe(...) and the await of fut (lines 41-42, 106-108,
\* 129-131), or to its return when nothing is left to subscribe to
Subscribe(t, co) ==
    IF co.fn = "get_headers"
    THEN /\ task' = [task EXCEPT ![t] = [co EXCEPT !.pc = "rpc"]]
         /\ subs' = subs
    ELSE IF Convertible(co.todo) = <<>>
    THEN /\ task' = [task EXCEPT ![t] = [co EXCEPT !.pc = "done",
                                                   !.fn = "none",
                                                   !.todo = <<>>,
                                                   !.sub = 0]]
         /\ subs' = subs
    ELSE /\ Len(subs) < MaxSubs
         /\ subs' = Append(subs, NewSub)
         /\ task' = [task EXCEPT ![t] = [co EXCEPT !.pc = "await_fut",
                                                   !.todo = Convertible(co.todo),
                                                   !.sub = Len(subs) + 1]]

\* a coroutine calls one of the functions: client = await _get_client().
\* _get_client, lines 25-27: if _CLIENT is None: client = MetaClient(), then
\* await client.setup_connections(); lines 30-31: else return _CLIENT, and
\* the caller runs on
GetClient(t) ==
    /\ task[t].pc = "start"
    /\ \E c \in Calls :
        IF CLIENT = 0
        THEN /\ made' = made + 1
             /\ task' = [task EXCEPT ![t] = [NotCalled EXCEPT !.pc = "setup",
                                                           !.fn = c.fn,
                                                           !.todo = c.todo,
                                                           !.client = made + 1]]
             /\ subs' = subs
        ELSE /\ made' = made
             /\ Subscribe(t, [NotCalled EXCEPT !.fn = c.fn, !.todo = c.todo,
                                               !.client = CLIENT])
    /\ UNCHANGED <<CLIENT, outq>>
    /\ UNCHANGED outside

\* _get_client, lines 28-29: setup_connections() is over; _CLIENT = client;
\* return _CLIENT, and the caller runs on
SetupDone(t) ==
    /\ task[t].pc = "setup"
    /\ CLIENT' = task[t].client
    /\ Subscribe(t, task[t])
    /\ UNCHANGED <<made, outq>>
    /\ UNCHANGED outside

\* get_headers, line 60: client.RPC(...) has answered; return
Rpc(t) ==
    /\ task[t].pc = "rpc"
    /\ task' = [task EXCEPT ![t].pc = "done", ![t].fn = "none"]
    /\ UNCHANGED <<CLIENT, made, subs, outq>>
    /\ UNCHANGED outside

\* the forwarder started before the initial value is on the queue
PutInitialLate(t) ==
    /\ task[t].pc = "await_fut"
    /\ subs' = [subs EXCEPT ![task[t].sub].forwarding = TRUE]
    /\ task' = [task EXCEPT ![t].pc = "forward"]
    /\ UNCHANGED <<CLIENT, made, outq>>
    /\ UNCHANGED outside

\* lines 42, 108, 131: await outq.put(await fut)
PutInitial(t) ==
    /\ task[t].pc = "await_fut"
    /\ outq' = Append(outq, [sub |-> task[t].sub, kind |-> "initial"])
    /\ task' = [task EXCEPT ![t].pc = "forward"]
    /\ UNCHANGED <<CLIENT, made, subs>>
    /\ UNCHANGED outside

\* lines 43, 109, 132: asyncio.ensure_future(utils.queue_forwarder(q, outq)),
\* then on to the next address, or return
StartForwarder(t) ==
    /\ task[t].pc = "forward"
    /\ \E started \in {[subs EXCEPT ![task[t].sub].forwarding = TRUE]} :
        \E co \in {[task[t] EXCEPT !.todo = Tail(task[t].todo), !.sub = 0]} :
            IF co.todo = <<>> \/ Convertible(co.todo) = <<>>
            THEN /\ task' = [task EXCEPT ![t] = [co EXCEPT !.pc = "done",
                                                           !.fn = "none",
                                                           !.todo = <<>>]]
                 /\ subs' = started
            ELSE /\ Len(subs) < MaxSubs
                 /\ subs' = Append(started, NewSub)
                 /\ task' = [task EXCEPT ![t] = [co EXCEPT !.pc = "await_fut",
                                                           !.todo = Convertible(co.todo),
                                                           !.sub = Len(subs) + 1]]
    /\ UNCHANGED <<CLIENT, made, outq>>
    /\ UNCHANGED outside

RECURSIVE AllPushed(_)

\* the pushes the server has sent so far, over all subscriptions
AllPushed(ss) ==
    IF ss = <<>> THEN 0 ELSE Head(ss).pushed + AllPushed(Tail(ss))

\* the server pushes on a subscription: the client puts the push on q
Push(s) ==
    /\ AllPushed(subs) < MaxPushes
    /\ subs' = [subs EXCEPT ![s].pushed = subs[s].pushed + 1,
                             ![s].q = subs[s].q + 1]
    /\ UNCHANGED <<CLIENT, made, task, outq>>
    /\ UNCHANGED outside

\* utils.queue_forwarder(q, outq): msg = await q.get(); await outq.put(msg)
Forward(s) ==
    /\ subs[s].forwarding
    /\ subs[s].q > 0
    /\ subs' = [subs EXCEPT ![s].q = subs[s].q - 1]
    /\ outq' = Append(outq, [sub |-> s, kind |-> "push"])
    /\ UNCHANGED <<CLIENT, made, task>>
    /\ UNCHANGED outside

InitElectrum ==
    /\ StoreIdle
    /\ probe = NoProbe
    /\ ElectrumIdle

NextElectrum ==
    \/ \E t \in Tasks : GetClient(t)
    \/ \E t \in Tasks : SetupDone(t)
    \/ \E t \in Tasks : Rpc(t)
    \/ \E t \in Tasks : PutInitial(t)
    \/ \E t \in Tasks : StartForwarder(t)
    \/ \E s \in 1..Len(subs) : Push(s)
    \/ \E s \in 1..Len(subs) : Forward(s)

SpecElectrum == InitElectrum /\ [][NextElectrum]_vars

-----------------------------------------------------------------------------
(* Vocabulary of the properties *)

\* the header a call was handed, parsed
ArgHeader(arg) == IF isinstance_str(arg) THEN parse_header(arg) ELSE arg

\* hash, read as an integer, is at most the target of the header's own nbits
MeetsTarget(header) == BigLeq(HexToInt(header.hash), make_target(header.nbits))

RowsOf(rows, hash) == {r \in rows : r.hash = hash}

HasRow(rows, hash) == RowsOf(rows, hash) # {}

StoredOk(op) == last.op = op /\ last.result = "True"

\* the largest accumulated_work of the table, 0 when it is empty
MaxWork(rows) ==
    IF rows = {} THEN 0
    ELSE CHOOSE w \in {r.accumulated_work : r \in rows} :
            \A r \in rows : r.accumulated_work <= w

-----------------------------------------------------------------------------
(* C1 *)

\* C1: in every reachable state no row of the headers table, pending or
\* committed, belongs to a header whose hash as an integer exceeds the target
\* of its nbits.
C1_NoRowFailsWork == \A r \in db \cup committed : MeetsTarget(r)

\* a batch holding the header with insufficient work was accepted and wrote
\* one of its other headers
C1_Witness ==
    /\ StoredOk("batch_store_header")
    /\ \E i \in 1..Len(last.arg) : ~MeetsTarget(ArgHeader(last.arg[i]))
    /\ last.written # <<>>

-----------------------------------------------------------------------------
(* C2 *)

\* the row a successful store_header left for its header is scored from the
\* parent row the table held before the call
ScoredFromParent(header) ==
    \A parent \in RowsOf(last.pre, header.prev_block) :
        \E r \in RowsOf(db, header.hash) :
            /\ r.height = parent.height + 1
            /\ r.accumulated_work = parent.accumulated_work + header.difficulty

\* C2 as stated: every successful store_header of a header whose parent is
\* in the table persists it with height = parent.height + 1 and
\* accumulated_work = parent.accumulated_work + difficulty.
C2_Original ==
    StoredOk("store_header") => ScoredFromParent(ArgHeader(last.arg))

\* C2 amended: every successful store_header of a header given as a string or
\* as a dict without a 'height' key, whose parent is in the table, persists it
\* with height = parent.height + 1 and accumulated_work =
\* parent.accumulated_work + difficulty.
C2_ScoredFromParent ==
    (StoredOk("store_header") /\ "height" \notin DOMAIN ArgHeader(last.arg))
        => ScoredFromParent(ArgHeader(last.arg))

\* genesis at (0, w0), then h1, then h2 stored one by one: h2 is at height 2
\* with w0 + difficulty(h1) + difficulty(h2)
C2_Witness ==
    /\ StoredOk("store_header")
    /\ last.arg = RawB
    /\ \E g \in RowsOf(db, 10), h1 \in RowsOf(last.pre, 20), h2 \in RowsOf(db, 30) :
        /\ g.height = 0
        /\ h1.height = 1
        /\ h1.accumulated_work = g.accumulated_work + h1.difficulty
        /\ h2.height = 2
        /\ h2.accumulated_work = g.accumulated_work + h1.difficulty + h2.difficulty
        /\ h1.difficulty # h2.difficulty

-----------------------------------------------------------------------------
(* C3 *)

\* C3: a successful store_header of a header (given without a 'height' key)
\* whose prev_block matches no row of the table persists it with height 0 and
\* accumulated_work 0.
C3_OrphanPlaceholder ==
    LET header == ArgHeader(last.arg)
    IN  (/\ StoredOk("store_header")
         /\ "height" \notin DOMAIN header
         /\ ~HasRow(last.pre, header.prev_block))
        => \E r \in RowsOf(db, header.hash) :
                r.height = 0 /\ r.accumulated_work = 0

-----------------------------------------------------------------------------
(* C4 *)

\* C4: when batch_store_header returns True the table holds a row for every
\* header of the batch that meets its target and for none that does not.
C4_BatchKeepsValid ==
    StoredOk("batch_store_header") =>
        \A i \in 1..Len(last.arg) :
            LET header == ArgHeader(last.arg[i])
            IN  HasRow(db, header.hash) <=> MeetsTarget(header)

-----------------------------------------------------------------------------
(* C5 *)

\* C5: in every reachable state every stored header whose prev_block is the
\* hash of another stored header has height = parent.height + 1 and
\* accumulated_work = parent.accumulated_work + its own difficulty.
C5_ParentLink ==
    \A r \in db, parent \in db :
        r.prev_block = parent.hash =>
            /\ r.height = parent.height + 1
            /\ r.accumulated_work = parent.accumulated_work + r.difficulty

-----------------------------------------------------------------------------
(* C6 *)

\* C6: find_heaviest returns exactly the rows whose accumulated_work no row
\* of the table exceeds: all of them on a tie, none on the empty table.
C6_HeaviestIsMaxSet ==
    StoredOk("find_heaviest") =>
        /\ last.found \subseteq db
        /\ \A r \in db :
            r \in last.found <=> \A s \in db : s.accumulated_work <= r.accumulated_work
        /\ (db = {} => last.found = {})

\* two forks of one parent tie at the maximum and a lighter row stays out
C6_Witness ==
    /\ StoredOk("find_heaviest")
    /\ \E r \in last.found, s \in last.found :
            r.hash # s.hash /\ r.prev_block = s.prev_block
    /\ \E r \in db : r \notin last.found

-----------------------------------------------------------------------------
(* C7 *)

\* C7: the table holds at most one row per hash in every reachable state, and
\* after a call has written a hash the row of that hash is the last one the
\* call wrote for it.
C7_OneRowPerHash ==
    /\ \A r \in db, s \in db : r.hash = s.hash => r = s
    /\ \A r \in committed, s \in committed : r.hash = s.hash => r = s
    /\ \A i \in 1..Len(last.written) :
        (\A j \in (i + 1)..Len(last.written) :
            last.written[j].hash # last.written[i].hash)
        => RowsOf(db, last.written[i].hash) = {last.written[i]}

\* a stored hash was written again with other values, once by each call
C7_Witness ==
    /\ last.op \in {"store_header", "batch_store_header"}
    /\ \E i \in 1..Len(last.written) :
        \E old \in RowsOf(last.pre, last.written[i].hash) :
            /\ old # last.written[i]
            /\ RowsOf(db, old.hash) = {last.written[i]}

-----------------------------------------------------------------------------
(* C8 *)

\* C8: once a hash has a row in the headers table it has one in every later
\* state, whatever call follows; headers sharing a prev_block all stay.
C8_AppendOnly ==
    [][/\ \A r \in db : HasRow(db', r.hash)
       /\ \A r \in committed : HasRow(committed', r.hash)]_vars

\* two forks of one parent were in the table before a call that wrote a row,
\* and both are there after it
C8_Witness ==
    /\ last.written # <<>>
    /\ \E r \in last.pre, s \in last.pre :
        /\ r.hash # s.hash
        /\ r.prev_block = s.prev_block
        /\ HasRow(db, r.hash)
        /\ HasRow(db, s.hash)

-----------------------------------------------------------------------------
(* C9 *)

\* C9: a row with height > 0 is never lowered to the placeholder nor changed
\* by a later call, and the maximum accumulated_work never decreases.
C9_ResolvedIsFinal ==
    [][/\ \A r \in db : r.height > 0 => r \in db'
       /\ MaxWork(db') >= MaxWork(db)]_vars

-----------------------------------------------------------------------------
(* C10 *)

\* C10: when store_header stores h2 while its parent is absent and the next
\* call stores the parent h1 with store_header, the row of h2 is unchanged by
\* the second call and is at height 0.
C10_NoBackfillOnSingle ==
    [][LET h2 == ArgHeader(last.arg)
           h1 == ArgHeader(last'.arg)
       IN  (/\ StoredOk("store_header")
            /\ ~HasRow(last.pre, h2.prev_block)
            /\ last'.op = "store_header"
            /\ last'.result = "True"
            /\ h1.hash = h2.prev_block)
           => /\ RowsOf(db', h2.hash) = RowsOf(db, h2.hash)
              /\ \A r \in RowsOf(db', h2.hash) : r.height = 0]_vars

-----------------------------------------------------------------------------
(* C12 *)

Malformed(arg) == isinstance_str(arg) /\ parse_header_raises(arg)

\* the headers of a batch that do not meet their target
FailingOf(arg) ==
    {ArgHeader(arg[i]).hash : i \in {j \in 1..Len(arg) : ~MeetsTarget(ArgHeader(arg[j]))}}

\* C12: store_header of a header that fails check_work returns False and
\* leaves the pending and the committed rows as they were; batch_store_header
\* of a list holding such headers (all of them included), when no execute or
\* commit raises and the table exists or no header survives, returns True and
\* writes none of the failing headers.
C12_WorkFailure ==
    [][/\ (/\ last'.op = "store_header"
           /\ ~Malformed(last'.arg)
           /\ ~MeetsTarget(ArgHeader(last'.arg)))
          => (last'.result = "False" /\ db' = db /\ committed' = committed)
       /\ (/\ last'.op = "batch_store_header"
           /\ \A i \in 1..Len(last'.arg) : ~Malformed(last'.arg[i])
           /\ FailingOf(last'.arg) # {}
           /\ ~last'.fault
           /\ (tables \/ Cardinality(FailingOf(last'.arg)) = Len(last'.arg)))
          => /\ last'.result = "True"
             /\ \A i \in 1..Len(last'.written) :
                    last'.written[i].hash \notin FailingOf(last'.arg)
             /\ \A h \in FailingOf(last'.arg) :
                    RowsOf(db', h) = RowsOf(db, h)]_vars

\* a batch whose every header fails check_work returned True on a table that
\* holds rows, and wrote nothing
C12_Witness ==
    /\ StoredOk("batch_store_header")
    /\ Len(last.arg) > 0
    /\ Cardinality(FailingOf(last.arg)) = Len(last.arg)
    /\ last.written = <<>>
    /\ db # {}
    /\ db = last.pre

-----------------------------------------------------------------------------
(* C13 *)

\* a hex string whose decoded length is not exactly 80 bytes
BadLength(arg) == isinstance_str(arg) /\ arg.bytes # 80

\* C13: store_header given a hex string whose decoded length is not 80 bytes,
\* and batch_store_header given a list holding one, raise to the caller and
\* write no row at all, the well-formed headers of the list included.
C13_MalformedRejected ==
    (\/ last.op = "store_header" /\ BadLength(last.arg)
     \/ /\ last.op = "batch_store_header"
        /\ \E i \in 1..Len(last.arg) : BadLength(last.arg[i]))
    => (last.result = "raise" /\ last.written = <<>> /\ db = last.pre)

-----------------------------------------------------------------------------
(* C14 *)

\* C14: when an execute or the commit of the write of store_header or
\* batch_store_header raises, the call returns False (it does not raise),
\* and after the write, failed or not, the call's cursor is closed.
C14_StorageFailureReported ==
    last.op \in {"store_header", "batch_store_header"}
    => /\ last.fault => last.result = "False"
       /\ (last.fault \/ last.result = "True") => last.cursor = "closed"

\* a batch whose second INSERT raised: False, the first row left pending
C14_Witness ==
    /\ last.op = "batch_store_header"
    /\ last.fault
    /\ last.result = "False"
    /\ Len(last.written) = 1
    /\ Len(last.arg) > 1
    /\ last.cursor = "closed"

-----------------------------------------------------------------------------
(* C15 *)

\* the low three bytes of nbits, least significant first
Mantissa(nbits) == nbits[1] + 256 * nbits[2] + 65536 * nbits[3]

\* hash * 256^26 <= mantissa * 256^(exponent - 3), both sides divided by
\* 256^25 or 256^26
WithinTarget(hash, nbits) ==
    CASE nbits[4] = 28 -> hash * 256 <= Mantissa(nbits)
      [] nbits[4] = 29 -> hash <= Mantissa(nbits)
      [] nbits[4] = 30 -> hash <= Mantissa(nbits) * 256

\* C15: check_work(header) is true exactly when the header's hash, as an
\* integer, is at most mantissa * 256^(exponent - 3) of its nbits, whatever
\* the other fields of the header are.
C15_CheckWorkIsTarget ==
    probe # NoProbe
    => (probe.result <=> WithinTarget(probe.header.hash, probe.header.nbits))

\* a hash equal to the target of its nbits 0000011d, 65536 * 256^26: accepted
C15_Witness ==
    /\ probe # NoProbe
    /\ probe.header.hash = 65536
    /\ probe.header.nbits = <<0, 0, 1, 29>>
    /\ probe.header.prev_block = 10
    /\ probe.result = TRUE

-----------------------------------------------------------------------------
(* C16 *)

\* the headers of a well-formed batch that pass check_work, in order
Survivors(arg) ==
    SelectSeq([i \in 1..Len(arg) |-> ArgHeader(arg[i])], MeetsTarget)

\* positions of the survivors whose parent had a row before the call
WithStoredParent(arg) ==
    {i \in 1..Len(Survivors(arg)) : HasRow(last.pre, Survivors(arg)[i].prev_block)}

\* C16: after a successful batch_store_header, the first surviving header
\* whose parent was in the table has height = parent.height + 1 and
\* accumulated_work = parent.accumulated_work + its own difficulty.
C16_SeedFromParent ==
    (/\ StoredOk("batch_store_header")
     /\ \A i \in 1..Len(last.arg) : ~Malformed(last.arg[i])
     /\ WithStoredParent(last.arg) # {})
    => LET i == CHOOSE j \in WithStoredParent(last.arg) :
                    \A l \in WithStoredParent(last.arg) : j <= l
           header == Survivors(last.arg)[i]
       IN  \A parent \in RowsOf(last.pre, header.prev_block) :
             \E r \in RowsOf(db, header.hash) :
                /\ r.height = parent.height + 1
                /\ r.accumulated_work =
                      parent.accumulated_work + header.difficulty

-----------------------------------------------------------------------------
(* C17 *)

\* every string well formed, every header valid, each the child of the one
\* before it
OrderedChain(arg) ==
    /\ Len(arg) > 0
    /\ \A i \in 1..Len(arg) : ~Malformed(arg[i]) /\ MeetsTarget(ArgHeader(arg[i]))
    /\ \A i \in 1..(Len(arg) - 1) :
          ArgHeader(arg[i + 1]).prev_block = ArgHeader(arg[i]).hash

\* difficulty(h1) + ... + difficulty(hk)
RECURSIVE SumDifficulty(_, _)
SumDifficulty(arg, k) ==
    IF k = 0 THEN 0 ELSE SumDifficulty(arg, k - 1) + ArgHeader(arg[k]).difficulty

\* C17: after a successful batch_store_header of an ordered chain h1..hn of
\* valid headers whose first header's parent P was in the table, every hk has
\* a row with height = P.height + k and accumulated_work =
\* P.accumulated_work + difficulty(h1) + ... + difficulty(hk).
C17_OrderedBatchResolved ==
    (StoredOk("batch_store_header") /\ OrderedChain(last.arg))
    => \A P \in RowsOf(last.pre, ArgHeader(last.arg[1]).prev_block) :
         \A k \in 1..Len(last.arg) :
            \E r \in RowsOf(db, ArgHeader(last.arg[k]).hash) :
               /\ r.height = P.height + k
               /\ r.accumulated_work =
                     P.accumulated_work + SumDifficulty(last.arg, k)

\* the chain A, B, D on a table holding their ancestor G
C17_Witness ==
    /\ StoredOk("batch_store_header")
    /\ OrderedChain(last.arg)
    /\ Len(last.arg) = 3
    /\ \E P \in RowsOf(last.pre, ArgHeader(last.arg[1]).prev_block) :
         \E r \in RowsOf(db, ArgHeader(last.arg[3]).hash) :
            r.height = P.height + 3

-----------------------------------------------------------------------------
(* C18 *)

\* a batch of well-formed strings that returned True and in which some
\* surviving header had its parent in the table
SeededBatch ==
    /\ StoredOk("batch_store_header")
    /\ \A i \in 1..Len(last.arg) : ~Malformed(last.arg[i])
    /\ WithStoredParent(last.arg) # {}

\* position, among the survivors, of the header seeded from the table
SeedPosition ==
    CHOOSE j \in WithStoredParent(last.arg) :
        \A l \in WithStoredParent(last.arg) : j <= l

\* the survivors after the seeded header whose parent is not in the table
\* and is a header of the batch other than the seeded one
BeyondOneHop ==
    {j \in (SeedPosition + 1)..Len(Survivors(last.arg)) :
        /\ ~HasRow(last.pre, Survivors(last.arg)[j].prev_block)
        /\ \E p \in 1..Len(Survivors(last.arg)) :
              /\ p # SeedPosition
              /\ Survivors(last.arg)[p].hash = Survivors(last.arg)[j].prev_block}

\* the header at position j of the survivors has its row at height 0 with
\* accumulated_work 0
Unresolved(j) ==
    \E r \in RowsOf(db, Survivors(last.arg)[j].hash) :
        r.height = 0 /\ r.accumulated_work = 0

\* C18 as stated: after batch_store_header a header of the batch whose parent
\* is in the batch but is not the header seeded from the table is persisted
\* with height 0 and accumulated_work 0.
C18_Original == SeededBatch => \A j \in BeyondOneHop : Unresolved(j)

\* C18 amended: after batch_store_header a header that stands after the
\* seeded header in the list, whose parent is not in the table and stands
\* after it in the list, is persisted with height 0 and accumulated_work 0.
C18_ParentLaterUnresolved ==
    SeededBatch
    => \A j \in BeyondOneHop :
         (\E p \in (j + 1)..Len(Survivors(last.arg)) :
             Survivors(last.arg)[p].hash = Survivors(last.arg)[j].prev_block)
         => Unresolved(j)

\* a header two links from the seeded one stands before its parent: it stays
\* at height 0 while its parent, behind it, is resolved
C18_Witness ==
    /\ SeededBatch
    /\ \E j \in BeyondOneHop :
         /\ Unresolved(j)
         /\ \E p \in (j + 1)..Len(Survivors(last.arg)) :
               /\ Survivors(last.arg)[p].hash = Survivors(last.arg)[j].prev_block
               /\ \E r \in RowsOf(db, Survivors(last.arg)[p].hash) : r.height > 0

-----------------------------------------------------------------------------
(* C20 *)

\* the rows a call wrote
WrittenBy(call) == {call.written[i] : i \in 1..Len(call.written)}

\* C20: after a batch_store_header (of strings of 80 bytes) that returned
\* False the rows visible on the connection are those from before the call,
\* and the commit of a store_header or batch_store_header that follows makes
\* durable only rows that call wrote itself.
C20_FailedBatchLeavesNothing ==
    [][(/\ last.op = "batch_store_header"
        /\ last.result = "False"
        /\ \A i \in 1..Len(last.arg) : ~BadLength(last.arg[i]))
       => /\ db = last.pre
          /\ last'.op \in {"store_header", "batch_store_header"}
             => \A r \in committed' \ committed : r \in WrittenBy(last')]_vars

-----------------------------------------------------------------------------
(* C11 *)

\* the coroutines to which _get_client has returned
Returned == {t \in Tasks : task[t].pc \in {"rpc", "await_fut", "forward", "done"}}

\* C11: under every interleaving of first callers of _get_client at most one
\* MetaClient is constructed, and every caller is returned the same instance.
C11_SingleClient ==
    /\ made <= 1
    /\ \A t, u \in Returned : task[t].client = task[u].client

-----------------------------------------------------------------------------
(* C19 *)

Initial(s) == [sub |-> s, kind |-> "initial"]

Pushed(s) == [sub |-> s, kind |-> "push"]

\* C19: for every subscription, the forwarding of its pushes starts only
\* after its initial value is on the output queue, and every push of the
\* subscription on the output queue comes after that initial value.
C19_InitialBeforePushes ==
    \A s \in 1..Len(subs) :
        /\ subs[s].forwarding => \E i \in 1..Len(outq) : outq[i] = Initial(s)
        /\ \A i \in 1..Len(outq) :
              outq[i] = Pushed(s) => \E j \in 1..(i - 1) : outq[j] = Initial(s)

\* a push that reached the client before the initial value was put on the
\* output queue has been relayed behind it
C19_Witness ==
    \E s \in 1..Len(subs) :
        /\ subs[s].pushed > 0
        /\ subs[s].q = 0
        /\ \E i, j \in 1..Len(outq) :
              i < j /\ outq[i] = Initial(s) /\ outq[j] = Pushed(s)

-----------------------------------------------------------------------------
(* C21 *)

\* the last call was store_header of a parsed header carrying a 'height' key
\* that passes check_work
ScoredCall ==
    /\ last.op = "store_header"
    /\ ~isinstance_str(last.arg)
    /\ "height" \in DOMAIN last.arg
    /\ MeetsTarget(last.arg)

\* C21: store_header of a parsed header that carries a 'height' key and
\* passes check_work never looks the parent up: it does not raise, it returns
\* False only when the write itself failed, and when it returns True the
\* header's row holds exactly the height and accumulated_work the caller
\* supplied, with the parent stored or not and whatever the parent's values.
C21_SuppliedScoreKept ==
    ScoredCall =>
        /\ last.result # "raise"
        /\ last.result = "False" => last.fault
        /\ last.result = "True" =>
              \A r \in RowsOf(db, last.arg.hash) :
                  /\ r.height = last.arg.height
                  /\ r.accumulated_work = last.arg.accumulated_work
        /\ last.result = "True" => HasRow(db, last.arg.hash)

\* the parent was in the table with a score that would have given the header
\* another height and accumulated_work, and the caller's values were stored
C21_Witness ==
    /\ ScoredCall
    /\ last.result = "True"
    /\ \E parent \in RowsOf(last.pre, last.arg.prev_block) :
        /\ parent.height + 1 # last.arg.height
        /\ parent.accumulated_work + last.arg.difficulty # last.arg.accumulated_work
    /\ \E r \in RowsOf(db, last.arg.hash) :
        r.height = last.arg.height /\ r.accumulated_work = last.arg.accumulated_work

====
